---- MODULE Spec2Model ----
(***************************************************************************)
(* Model of internal/workerutil/worker.go: the dequeue-and-handle loop of  *)
(* Worker.Start, the heartbeat goroutine, the handler goroutines spawned   *)
(* by dequeueAndHandle, and the external calls Stop and Cancel.            *)
(*                                                                         *)
(* The store and the handler are the environment: every value they can     *)
(* return is a nondeterministic choice.  The IDSet type (runningIDSet) is  *)
(* not part of the sources at hand; its five operations are modelled from  *)
(* section 4.1 of the specification.                                       *)
(***************************************************************************)
EXTENDS Integers, FiniteSets, Sequences, TLC

\* ---------------------------------------------------------------- bounds
NumHandlers == 2        \* WorkerOptions.NumHandlers of the modelled worker
MaxID == 2              \* record ids the store hands out are 1..MaxID
MaxRecords == 3         \* records the store returns from Dequeue in one run
MaxTotalJobs == 2       \* WorkerOptions.NumTotalJobs ranges over 0..MaxTotalJobs

RecordIDs == 1..MaxID
Acts == 1..MaxRecords   \* handler activities, numbered in order of registration

\* ---------------------------------------------------------------- errors
\* The error values the worker tells apart: nil, an error for which
\* errcode.IsNonRetryable holds, an error that Is context.Canceled, and any
\* other error.
HandleErrs == {"nil", "nonretryable", "canceled", "other"}

VARIABLES
    numTotalJobs,     \* options.NumTotalJobs (0 = no limit)
    pcMain,           \* position of Start / dequeueAndHandle
    pcHb,             \* position of the heartbeat goroutine
    numDequeues,      \* w.numDequeues
    handlerSemaphore, \* number of tokens in w.handlerSemaphore
    rootCancelled,    \* w.ctx is cancelled
    shutdownFired,    \* shutdownChan has a value to deliver
    wg,               \* counter of w.wg
    runningIDSet,     \* w.runningIDSet: id -> activity whose cancel it holds, 0 = absent
    numJobs,          \* the gauge options.Metrics.numJobs
    act,              \* the handler activities
    record,           \* the record returned by store.Dequeue, 0 = none
    ok,               \* result of the last dequeueAndHandle, read by the select in Start
    reason,           \* the local variable reason of Start
    numRecords,       \* number of store.Dequeue calls that returned a record
    numMarks,         \* number of MarkComplete / MarkErrored / MarkFailed calls made
    hbTodo,           \* ids of the snapshot that are not in knownIDsMap and not yet removed
    hbErr             \* store.Heartbeat returned an error in the current tick

vars == <<numTotalJobs, pcMain, pcHb, numDequeues, handlerSemaphore,
          rootCancelled, shutdownFired, wg, runningIDSet, numJobs, act, record, ok,
          reason, numRecords, numMarks, hbTodo, hbErr>>

cfgVars == <<numTotalJobs>>
hbVars == <<pcHb, hbTodo, hbErr>>

\* ---------------------------------------------------------------- IDSet
newIDSet == [id \in RecordIDs |-> 0]
IDSetHas(s, id) == s[id] # 0
IDSetAdd(s, id, c) == [s EXCEPT ![id] = c]
IDSetRemove(s, id) == [s EXCEPT ![id] = 0]
IDSetSlice(s) == {id \in RecordIDs : s[id] # 0}

\* ---------------------------------------------------------------- handler activities
\* pc: none (not created), pre (context created and id registered), handle
\* (goroutine running Worker.handle), post .. remove (positions of the deferred
\* function), done (goroutine gone).  canceled: the cancel function of the
\* per-record context was called.  res and mark: what Handler.Handle returned
\* and the terminal store call made for it; they are locals of Worker.handle
\* and are forgotten when the deferred function runs.
NoAct == [pc |-> "none", id |-> 0, canceled |-> FALSE, res |-> "none", mark |-> "none"]

\* the activity the next successful registration creates
NextAct == Cardinality({a \in Acts : act[a].pc # "none"}) + 1

\* ctx.Err() of the per-record context of activity a: the context is
\* derived from the root context and has its own cancel function.
CtxErr(a) == IF act[a].canceled \/ rootCancelled THEN "canceled" ELSE "nil"

\* errors.Is(err, reference) on the error values of the model
ErrorsIs(err, reference) == IF reference = "nil" THEN err = "nil" ELSE err = reference

IsNonRetryable(err) == err = "nonretryable"

isJobCanceled_negHas(id, handleErr, ctxErr) ==
    ErrorsIs(handleErr, ctxErr) /\ ~IDSetHas(runningIDSet, id)

isJobCanceled(id, handleErr, ctxErr) ==
    ErrorsIs(handleErr, ctxErr) /\ IDSetHas(runningIDSet, id)

\* the branch Worker.handle takes for the result of Handler.Handle
TerminalCall_swapped(id, handleErr, ctxErr) ==
    IF IsNonRetryable(handleErr) \/ (handleErr # "nil" /\ isJobCanceled(id, handleErr, ctxErr))
    THEN "MarkErrored"
    ELSE IF handleErr # "nil" THEN "MarkFailed" ELSE "MarkComplete"

TerminalCall(id, handleErr, ctxErr) ==
    IF IsNonRetryable(handleErr) \/ (handleErr # "nil" /\ isJobCanceled(id, handleErr, ctxErr))
    THEN "MarkFailed"
    ELSE IF handleErr # "nil" THEN "MarkErrored" ELSE "MarkComplete"

\* ---------------------------------------------------------------- construction
Init ==
    /\ numTotalJobs \in 0..MaxTotalJobs
    /\ pcMain = "init"
    /\ pcHb = "init"
    /\ numDequeues = 0
    /\ handlerSemaphore = NumHandlers
    /\ rootCancelled = FALSE
    /\ shutdownFired = FALSE
    /\ wg = 0
    /\ runningIDSet = newIDSet
    /\ numJobs = 0
    /\ act = [a \in Acts |-> NoAct]
    /\ record = 0
    /\ ok = FALSE
    /\ reason = ""
    /\ numRecords = 0
    /\ numMarks = 0
    /\ hbTodo = {}
    /\ hbErr = FALSE

\* ---------------------------------------------------------------- Start
mainFrame == <<cfgVars, hbTodo, hbErr, rootCancelled, shutdownFired, wg, numJobs, numMarks>>

\* head of the loop in Start: the NumTotalJobs check, then dequeueAndHandle
LoopHead_noCap(n) ==
    /\ n = n
    /\ reason' = reason
    /\ pcMain' = "acquire"

LoopHead(n) ==
    IF numTotalJobs # 0 /\ n >= numTotalJobs
    THEN /\ reason' = "NumTotalJobs dequeued"
         /\ pcMain' = "wgwait"
    ELSE /\ reason' = reason
         /\ pcMain' = "acquire"

\* Start: spawns the heartbeat goroutine, arms the shutdown timer and enters the loop.
Start ==
    /\ pcMain = "init"
    /\ pcHb' = "wait"
    /\ LoopHead(numDequeues)
    /\ UNCHANGED <<mainFrame, numDequeues, handlerSemaphore, runningIDSet, act, record, ok,
                   numRecords>>

\* What Start does with the result (dequeued, err) of dequeueAndHandle:
\* break when the root context is cancelled and err is its error, else count
\* a successful dequeue and go on to the select.
AfterDequeueAndHandle_breakOnAny(dequeued, err) ==
    IF err # "nil"
    THEN /\ pcMain' = "wgwait"
         /\ ok' = FALSE
         /\ numDequeues' = numDequeues
    ELSE /\ pcMain' = "select"
         /\ ok' = dequeued
         /\ numDequeues' = IF dequeued THEN numDequeues + 1 ELSE numDequeues

AfterDequeueAndHandle(dequeued, err) ==
    IF err # "nil" /\ rootCancelled /\ ErrorsIs(err, "canceled")
    THEN /\ pcMain' = "wgwait"
         /\ ok' = FALSE
         /\ numDequeues' = numDequeues
    ELSE /\ pcMain' = "select"
         /\ ok' = dequeued
         /\ numDequeues' = IF dequeued THEN numDequeues + 1 ELSE numDequeues

\* dequeueAndHandle, first select: a slot is taken from the semaphore
AcquireSlot_noTake ==
    /\ pcMain = "acquire"
    /\ pcMain' = "dequeue"
    /\ UNCHANGED <<mainFrame, pcHb, numDequeues, handlerSemaphore, runningIDSet, act, record, ok,
                   reason, numRecords>>

AcquireSlot ==
    /\ pcMain = "acquire"
    /\ handlerSemaphore > 0
    /\ handlerSemaphore' = handlerSemaphore - 1
    /\ pcMain' = "dequeue"
    /\ UNCHANGED <<mainFrame, pcHb, numDequeues, runningIDSet, act, record, ok, reason, numRecords>>

\* dequeueAndHandle, first select: the root context is done
AcquireCancelled ==
    /\ pcMain = "acquire"
    /\ rootCancelled
    /\ AfterDequeueAndHandle(FALSE, "canceled")
    /\ UNCHANGED <<mainFrame, pcHb, handlerSemaphore, runningIDSet, act, record, reason, numRecords>>

\* preDequeueHook declines: the deferred function gives the slot back
PreDequeueDecline ==
    /\ pcMain = "dequeue"
    /\ handlerSemaphore' = handlerSemaphore + 1
    /\ AfterDequeueAndHandle(FALSE, "nil")
    /\ UNCHANGED <<mainFrame, pcHb, runningIDSet, act, record, reason, numRecords>>

\* preDequeueHook fails with err
PreDequeueError_leak(err) ==
    /\ pcMain = "dequeue"
    /\ handlerSemaphore' = handlerSemaphore
    /\ AfterDequeueAndHandle(FALSE, err)
    /\ UNCHANGED <<mainFrame, pcHb, runningIDSet, act, record, reason, numRecords>>

PreDequeueError(err) ==
    /\ pcMain = "dequeue"
    /\ handlerSemaphore' = handlerSemaphore + 1
    /\ AfterDequeueAndHandle(FALSE, err)
    /\ UNCHANGED <<mainFrame, pcHb, runningIDSet, act, record, reason, numRecords>>

\* the hook (if any) lets the dequeue go on and store.Dequeue fails with err
DequeueError(err) ==
    /\ pcMain = "dequeue"
    /\ handlerSemaphore' = handlerSemaphore + 1
    /\ AfterDequeueAndHandle(FALSE, err)
    /\ UNCHANGED <<mainFrame, pcHb, runningIDSet, act, record, reason, numRecords>>

\* store.Dequeue has nothing to process
DequeueEmpty_leak ==
    /\ pcMain = "dequeue"
    /\ handlerSemaphore' = handlerSemaphore
    /\ AfterDequeueAndHandle(FALSE, "nil")
    /\ UNCHANGED <<mainFrame, pcHb, runningIDSet, act, record, reason, numRecords>>

DequeueEmpty ==
    /\ pcMain = "dequeue"
    /\ handlerSemaphore' = handlerSemaphore + 1
    /\ AfterDequeueAndHandle(FALSE, "nil")
    /\ UNCHANGED <<mainFrame, pcHb, runningIDSet, act, record, reason, numRecords>>

\* store.Dequeue returns the record with the given id
DequeueRecord(id) ==
    /\ pcMain = "dequeue"
    /\ numRecords < MaxRecords
    /\ numRecords' = numRecords + 1
    /\ record' = id
    /\ pcMain' = "add"
    /\ UNCHANGED <<mainFrame, pcHb, numDequeues, handlerSemaphore, runningIDSet, act, ok, reason>>

\* runningIDSet.Add refuses the id: ErrJobAlreadyExists, the slot is given back
AddDuplicate_leak ==
    /\ pcMain = "add"
    /\ IDSetHas(runningIDSet, record)
    /\ handlerSemaphore' = handlerSemaphore
    /\ record' = 0
    /\ AfterDequeueAndHandle(FALSE, "other")
    /\ UNCHANGED <<mainFrame, pcHb, runningIDSet, act, reason, numRecords>>

AddDuplicate ==
    /\ pcMain = "add"
    /\ IDSetHas(runningIDSet, record)
    /\ handlerSemaphore' = handlerSemaphore + 1
    /\ record' = 0
    /\ AfterDequeueAndHandle(FALSE, "other")
    /\ UNCHANGED <<mainFrame, pcHb, runningIDSet, act, reason, numRecords>>

\* context.WithCancel(w.ctx) and runningIDSet.Add(record.RecordID(), cancel)
AddRecord ==
    /\ pcMain = "add"
    /\ ~IDSetHas(runningIDSet, record)
    /\ runningIDSet' = IDSetAdd(runningIDSet, record, NextAct)
    /\ act' = [act EXCEPT ![NextAct] = [NoAct EXCEPT !.pc = "pre", !.id = record]]
    /\ pcMain' = "spawn"
    /\ UNCHANGED <<mainFrame, pcHb, numDequeues, handlerSemaphore, record, ok, reason, numRecords>>

\* the activity that is registered and not yet spawned
PreAct == CHOOSE a \in Acts : act[a].pc = "pre"

\* Metrics.numJobs.Inc(), then the PreHandle hook (if the handler has hooks)
\* is called with handleCtx and the record; until it returns the gauge
\* counts a record that has no goroutine yet.
PreHandle ==
    /\ pcMain = "spawn"
    /\ numJobs' = numJobs + 1
    /\ pcMain' = "prehandle"
    /\ UNCHANGED <<cfgVars, hbVars, numDequeues, handlerSemaphore, rootCancelled, shutdownFired,
                   wg, runningIDSet, act, record, ok, reason, numRecords, numMarks>>

\* PreHandle has returned: w.wg.Add(1), go func() {...}, return true, nil
Spawn_noWgAdd ==
    /\ pcMain = "prehandle"
    /\ numJobs' = numJobs
    /\ wg' = wg
    /\ act' = [act EXCEPT ![PreAct].pc = "handle"]
    /\ record' = 0
    /\ AfterDequeueAndHandle(TRUE, "nil")
    /\ UNCHANGED <<cfgVars, hbVars, rootCancelled, shutdownFired, handlerSemaphore,
                   runningIDSet, reason, numRecords, numMarks>>

Spawn ==
    /\ pcMain = "prehandle"
    /\ numJobs' = numJobs
    /\ wg' = wg + 1
    /\ act' = [act EXCEPT ![PreAct].pc = "handle"]
    /\ record' = 0
    /\ AfterDequeueAndHandle(TRUE, "nil")
    /\ UNCHANGED <<cfgVars, hbVars, rootCancelled, shutdownFired, handlerSemaphore,
                   runningIDSet, reason, numRecords, numMarks>>

selectFrame == <<mainFrame, pcHb, numDequeues, handlerSemaphore, runningIDSet, act, record,
                 numRecords>>

\* select at the end of an iteration: the dequeue clock delivers, and the
\* next iteration begins
SelectDelay ==
    /\ pcMain = "select"
    /\ ok' = FALSE
    /\ LoopHead(numDequeues)
    /\ UNCHANGED selectFrame

\* select at the end of an iteration: the root context is done
SelectCancelled ==
    /\ pcMain = "select"
    /\ rootCancelled
    /\ pcMain' = "wgwait"
    /\ ok' = FALSE
    /\ UNCHANGED <<selectFrame, reason>>

\* select at the end of an iteration: the shutdown channel delivers
SelectShutdown ==
    /\ pcMain = "select"
    /\ shutdownFired
    /\ reason' = "MaxActiveTime elapsed"
    /\ pcMain' = "wgwait"
    /\ ok' = FALSE
    /\ UNCHANGED selectFrame

\* w.wg.Wait() returns and the deferred close(w.finished) runs
WgWait_noWait ==
    /\ pcMain = "wgwait"
    /\ pcMain' = "finished"
    /\ UNCHANGED <<mainFrame, pcHb, numDequeues, handlerSemaphore, runningIDSet, act, record, ok,
                   reason, numRecords>>

WgWait ==
    /\ pcMain = "wgwait"
    /\ wg = 0
    /\ pcMain' = "finished"
    /\ UNCHANGED <<mainFrame, pcHb, numDequeues, handlerSemaphore, runningIDSet, act, record, ok,
                   reason, numRecords>>

\* ---------------------------------------------------------------- heartbeat goroutine
hbFrame == <<cfgVars, pcMain, numDequeues, handlerSemaphore, rootCancelled, shutdownFired, wg,
             numJobs, act, record, ok, reason, numRecords, numMarks>>

\* select of the heartbeat goroutine: the root context is done
HeartbeatExit_anyStop ==
    /\ pcHb = "wait"
    /\ rootCancelled \/ pcMain \in {"wgwait", "finished"}
    /\ pcHb' = "exit"
    /\ UNCHANGED <<hbFrame, runningIDSet, hbTodo, hbErr>>

HeartbeatExit ==
    /\ pcHb = "wait"
    /\ rootCancelled
    /\ pcHb' = "exit"
    /\ UNCHANGED <<hbFrame, runningIDSet, hbTodo, hbErr>>

\* select of the heartbeat goroutine: the heartbeat clock delivers;
\* ids := w.runningIDSet.Slice(); store.Heartbeat(w.ctx, ids) returns
\* (knownIDs, err).  An error is only logged: the loop over ids is entered
\* with the knownIDs that came back.
HeartbeatTick(knownIDs, err) ==
    /\ pcHb = "wait"
    /\ hbTodo' = IDSetSlice(runningIDSet) \ knownIDs
    /\ IF hbTodo' = {}
       THEN pcHb' = "wait" /\ hbErr' = FALSE
       ELSE pcHb' = "remove" /\ hbErr' = err
    /\ UNCHANGED <<hbFrame, runningIDSet>>

\* "for _, id := range ids": the next id that is not in knownIDsMap is removed
HeartbeatRemove_skip(id) ==
    /\ pcHb = "remove"
    /\ id \in hbTodo
    /\ runningIDSet' = runningIDSet
    /\ hbTodo' = hbTodo \ {id}
    /\ IF hbTodo' = {}
       THEN pcHb' = "wait" /\ hbErr' = FALSE
       ELSE pcHb' = pcHb /\ hbErr' = hbErr
    /\ UNCHANGED hbFrame

HeartbeatRemove_cancels(id) ==
    /\ pcHb = "remove"
    /\ id \in hbTodo
    /\ runningIDSet' = IDSetRemove(runningIDSet, id)
    /\ act' = IF IDSetHas(runningIDSet, id)
              THEN [act EXCEPT ![runningIDSet[id]].canceled = TRUE]
              ELSE act
    /\ hbTodo' = hbTodo \ {id}
    /\ IF hbTodo' = {}
       THEN pcHb' = "wait" /\ hbErr' = FALSE
       ELSE pcHb' = pcHb /\ hbErr' = hbErr
    /\ UNCHANGED <<cfgVars, pcMain, numDequeues, handlerSemaphore, rootCancelled, shutdownFired,
                   wg, numJobs, record, ok, reason, numRecords, numMarks>>

HeartbeatRemove(id) ==
    /\ pcHb = "remove"
    /\ id \in hbTodo
    /\ runningIDSet' = IDSetRemove(runningIDSet, id)
    /\ hbTodo' = hbTodo \ {id}
    /\ IF hbTodo' = {}
       THEN pcHb' = "wait" /\ hbErr' = FALSE
       ELSE pcHb' = pcHb /\ hbErr' = hbErr
    /\ UNCHANGED hbFrame

\* ---------------------------------------------------------------- handler goroutine
actFrame == <<cfgVars, hbVars, pcMain, numDequeues, rootCancelled, shutdownFired, record, ok,
              reason, numRecords>>

\* Worker.handle: Handler.Handle returns handleErr and the terminal store
\* call chosen from it is made; its result (marked, err) is only logged.
handle_skipOnError(a, handleErr) ==
    /\ act[a].pc = "handle"
    /\ act' = [act EXCEPT ![a].pc = "post",
                          ![a].res = handleErr,
                          ![a].mark = IF handleErr = "other" THEN "none"
                                      ELSE TerminalCall(act[a].id, handleErr, CtxErr(a))]
    /\ numMarks' = IF handleErr = "other" THEN numMarks ELSE numMarks + 1
    /\ UNCHANGED <<actFrame, handlerSemaphore, wg, runningIDSet, numJobs>>

handle(a, handleErr) ==
    /\ act[a].pc = "handle"
    /\ act' = [act EXCEPT ![a].pc = "post",
                          ![a].res = handleErr,
                          ![a].mark = TerminalCall(act[a].id, handleErr, CtxErr(a))]
    /\ numMarks' = numMarks + 1
    /\ UNCHANGED <<actFrame, handlerSemaphore, wg, runningIDSet, numJobs>>

\* deferred function of the goroutine: the PostHandle hook, Metrics.numJobs.Dec()
PostHandle_noDec(a) ==
    /\ act[a].pc = "post"
    /\ numJobs' = numJobs
    /\ act' = [act EXCEPT ![a] = [NoAct EXCEPT !.pc = "release", !.id = act[a].id]]
    /\ UNCHANGED <<actFrame, handlerSemaphore, wg, runningIDSet, numMarks>>

PostHandle(a) ==
    /\ act[a].pc = "post"
    /\ numJobs' = numJobs - 1
    /\ act' = [act EXCEPT ![a] = [NoAct EXCEPT !.pc = "release", !.id = act[a].id]]
    /\ UNCHANGED <<actFrame, handlerSemaphore, wg, runningIDSet, numMarks>>

\* deferred function: w.handlerSemaphore <- struct{}{}
ReleaseSlot(a) ==
    /\ act[a].pc = "release"
    /\ handlerSemaphore < NumHandlers
    /\ handlerSemaphore' = handlerSemaphore + 1
    /\ act' = [act EXCEPT ![a].pc = "wgdone"]
    /\ UNCHANGED <<actFrame, wg, runningIDSet, numJobs, numMarks>>

\* deferred function: w.wg.Done()
WgDone_noDone(a) ==
    /\ act[a].pc = "wgdone"
    /\ wg' = wg
    /\ act' = [act EXCEPT ![a].pc = "remove"]
    /\ UNCHANGED <<actFrame, handlerSemaphore, runningIDSet, numJobs, numMarks>>

WgDone(a) ==
    /\ act[a].pc = "wgdone"
    /\ wg' = wg - 1
    /\ act' = [act EXCEPT ![a].pc = "remove"]
    /\ UNCHANGED <<actFrame, handlerSemaphore, runningIDSet, numJobs, numMarks>>

\* "defer w.runningIDSet.Remove(record.RecordID())" inside the deferred
\* function: it runs when the deferred function returns, after wg.Done().
DeferredRemove(a) ==
    /\ act[a].pc = "remove"
    /\ runningIDSet' = IDSetRemove(runningIDSet, act[a].id)
    /\ act' = [act EXCEPT ![a] = [NoAct EXCEPT !.pc = "done"]]
    /\ UNCHANGED <<actFrame, handlerSemaphore, wg, numJobs, numMarks>>

\* ---------------------------------------------------------------- calls from outside
\* Stop: w.cancel() (its Wait returns once pcMain = "finished")
Stop ==
    /\ ~rootCancelled
    /\ rootCancelled' = TRUE
    /\ UNCHANGED <<cfgVars, hbVars, pcMain, numDequeues, handlerSemaphore, shutdownFired, wg,
                   runningIDSet, numJobs, act, record, ok, reason, numRecords, numMarks>>

\* Cancel(id): runningIDSet.Cancel(id) calls the cancel function stored for
\* id, if any.  Once Worker.handle has returned nothing reads the per-record
\* context any more, so only a call that comes before is recorded.
Cancel_andRemove(id) ==
    /\ IDSetHas(runningIDSet, id)
    /\ act[runningIDSet[id]].pc \in {"pre", "handle"}
    /\ ~act[runningIDSet[id]].canceled
    /\ act' = [act EXCEPT ![runningIDSet[id]].canceled = TRUE]
    /\ runningIDSet' = IDSetRemove(runningIDSet, id)
    /\ UNCHANGED <<cfgVars, hbVars, pcMain, numDequeues, handlerSemaphore, rootCancelled,
                   shutdownFired, wg, numJobs, record, ok, reason, numRecords, numMarks>>

Cancel(id) ==
    /\ IDSetHas(runningIDSet, id)
    /\ act[runningIDSet[id]].pc \in {"pre", "handle"}
    /\ ~act[runningIDSet[id]].canceled
    /\ act' = [act EXCEPT ![runningIDSet[id]].canceled = TRUE]
    /\ UNCHANGED <<cfgVars, hbVars, pcMain, numDequeues, handlerSemaphore, rootCancelled,
                   shutdownFired, wg, runningIDSet, numJobs, record, ok, reason, numRecords,
                   numMarks>>

\* The timer behind shutdownChan fires.  With MaxActiveTime = 0 the channel
\* never delivers: those are the behaviours in which this step is never taken.
ShutdownTimer ==
    /\ pcMain # "init"
    /\ ~shutdownFired
    /\ shutdownFired' = TRUE
    /\ UNCHANGED <<cfgVars, hbVars, pcMain, numDequeues, handlerSemaphore, rootCancelled, wg,
                   runningIDSet, numJobs, act, record, ok, reason, numRecords, numMarks>>

\* ---------------------------------------------------------------- specification
MainStep ==
    \/ Start
    \/ AcquireSlot
    \/ AcquireCancelled
    \/ PreDequeueDecline
    \/ \E err \in {"canceled", "other"} : PreDequeueError(err)
    \/ \E err \in {"canceled", "other"} : DequeueError(err)
    \/ DequeueEmpty
    \/ \E id \in RecordIDs : DequeueRecord(id)
    \/ AddDuplicate
    \/ AddRecord
    \/ PreHandle
    \/ Spawn
    \/ SelectDelay
    \/ SelectCancelled
    \/ SelectShutdown
    \/ WgWait

HeartbeatStep ==
    \/ HeartbeatExit
    \/ \E knownIDs \in SUBSET RecordIDs, err \in BOOLEAN : HeartbeatTick(knownIDs, err)
    \/ \E id \in RecordIDs : HeartbeatRemove(id)

HandlerStep(a) ==
    \/ \E handleErr \in HandleErrs : handle(a, handleErr)
    \/ PostHandle(a)
    \/ ReleaseSlot(a)
    \/ WgDone(a)
    \/ DeferredRemove(a)

Next ==
    \/ MainStep
    \/ HeartbeatStep
    \/ \E a \in Acts : HandlerStep(a)
    \/ Stop
    \/ \E id \in RecordIDs : Cancel(id)
    \/ ShutdownTimer

Spec == Init /\ [][Next]_vars

\* Liveness is checked for the worker built with NumTotalJobs = MaxTotalJobs
\* (the store still has MaxRecords records to return, so refused duplicates,
\* heartbeat removals and re-registrations all occur).
InitLive == Init /\ numTotalJobs = MaxTotalJobs

\* The scheduler runs every goroutine that can take a step, and Handler.Handle,
\* the hooks and the store calls of a handler goroutine return.
LiveSpec == InitLive /\ [][Next]_vars /\ \A a \in Acts : WF_vars(HandlerStep(a))

\* Termination after Stop: besides the handler goroutines, the goroutine of
\* Start is scheduled, and a select with several ready cases picks each of
\* them sooner or later (Go chooses among the ready cases at random), so the
\* cases on w.ctx.Done() are not passed over for ever.
TermSpec ==
    /\ InitLive /\ [][Next]_vars
    /\ \A a \in Acts : WF_vars(HandlerStep(a))
    /\ WF_vars(MainStep)
    /\ SF_vars(SelectCancelled)
    /\ SF_vars(AcquireCancelled)

\* Exit of the heartbeat goroutine: the goroutine is scheduled while it is
\* in its loop over the snapshot, and its select, which finds the case on
\* w.ctx.Done() ready every time it is reached once the root context is
\* cancelled, does not pick the clock for ever.
HeartbeatSpec ==
    /\ InitLive /\ [][Next]_vars
    /\ WF_vars(\E id \in RecordIDs : HeartbeatRemove(id))
    /\ SF_vars(HeartbeatExit)

\* ---------------------------------------------------------------- vocabulary of the properties
\* the goroutine of activity a exists and has not put its slot back yet
HoldsSlot(a) == act[a].pc \in {"handle", "post", "release"}

\* the goroutine of activity a exists and has not called w.wg.Done() yet
Running(a) == act[a].pc \in {"handle", "post", "release", "wgdone"}

\* the goroutine of activity a was spawned
Spawned(a) == act[a].pc \notin {"none", "pre"}

\* Worker.handle has made its terminal store call for activity a
Marked(a) == act[a].pc \in {"post", "release", "wgdone", "remove", "done"}

\* the main loop holds a slot it took in dequeueAndHandle and has not handed on
MainHoldsSlot == pcMain \in {"dequeue", "add", "spawn", "prehandle"}

\* activity a takes the step of Worker.handle
HandleReturns(a) == act[a].pc = "handle" /\ act'[a].pc = "post"

\* ---------------------------------------------------------------- C1
\* C1: the handler activities that were spawned and have not yet put their
\* slot back, together with the slot the main loop holds while it dequeues,
\* never number more than NumHandlers: no dequeue is attempted while
\* NumHandlers activities hold their slots.
C1_NoOverSubscription ==
    Cardinality({a \in Acts : HoldsSlot(a)}) + (IF MainHoldsSlot THEN 1 ELSE 0) <= NumHandlers

\* NumHandlers invocations of Handle are in progress, the store has more
\* records, and the main loop waits for a slot.
C1_Witness ==
    /\ Cardinality({a \in Acts : act[a].pc = "handle"}) = NumHandlers
    /\ pcMain = "acquire"
    /\ handlerSemaphore = 0
    /\ numRecords < MaxRecords

\* ---------------------------------------------------------------- C2
\* C2: no two invocations of Handle for the same record id run at the same time.
C2_OneHandlePerID ==
    \A a, b \in Acts :
        (a # b /\ act[a].pc = "handle" /\ act[b].pc = "handle") => act[a].id # act[b].id

\* ---------------------------------------------------------------- C3
\* C3 as stated: every store.Dequeue call that returned a record is matched by
\* one terminal store call, so once Start has returned the two counts agree.
C3_EveryDequeueMarked == pcMain = "finished" => numMarks = numRecords

\* C3 amended: every record that is registered and handed to a handler
\* activity gets exactly one terminal store call from that activity (a record
\* refused with ErrJobAlreadyExists gets none of its own), and the activity
\* goes on to its registry removal.
C3_CleanupCompleteness ==
    /\ [](numMarks = Cardinality({a \in Acts : Marked(a)}))
    /\ [](pcMain = "finished" => numMarks = numDequeues)
    /\ \A a \in Acts : (act[a].pc = "handle") ~> (act[a].pc = "done")

\* Start has returned after a run in which one record was handled and removed
\* and another Dequeue result was refused as a duplicate.
C3_Witness ==
    /\ pcMain = "finished"
    /\ numMarks >= 1
    /\ numRecords > numMarks
    /\ \A a \in Acts : act[a].pc \in {"none", "done"}

\* ---------------------------------------------------------------- C4
\* C4: the terminal store call is a function of what Handle returned: nil gives
\* MarkComplete, a non-retryable error gives MarkFailed, and any other error
\* that is not the cancellation error of a cancelled context for a registered
\* id gives MarkErrored.
C4_TerminalClassification ==
    [][\A a \in Acts : HandleReturns(a) =>
          LET r == act'[a].res
              m == act'[a].mark
              cancellation == /\ r = "canceled"
                              /\ CtxErr(a) = "canceled"
                              /\ IDSetHas(runningIDSet, act[a].id)
          IN  /\ m \in {"MarkComplete", "MarkErrored", "MarkFailed"}
              /\ r = "nil" => m = "MarkComplete"
              /\ r = "nonretryable" => m = "MarkFailed"
              /\ (r \in {"canceled", "other"} /\ ~cancellation) => m = "MarkErrored"]_vars

\* Handle returned an ordinary error and MarkErrored was called.
C4_Witness ==
    \E a \in Acts : act[a].pc = "post" /\ act[a].res = "other" /\ act[a].mark = "MarkErrored"

\* ---------------------------------------------------------------- C5
\* C5: when Cancel(id) has fired the context of a registered record and Handle
\* returns the cancellation error while the id is registered, MarkFailed is
\* called, not MarkErrored.
C5_ExternalCancel ==
    [][\A a \in Acts :
          (/\ HandleReturns(a)
           /\ act[a].canceled
           /\ act'[a].res = "canceled"
           /\ IDSetHas(runningIDSet, act[a].id)) => act'[a].mark = "MarkFailed"]_vars

\* Cancel(id) was called, Handle returned the cancellation error, the root
\* context is not cancelled, and MarkFailed was called.
C5_Witness ==
    \E a \in Acts :
        /\ act[a].pc = "post"
        /\ act[a].canceled
        /\ ~rootCancelled
        /\ act[a].res = "canceled"
        /\ act[a].mark = "MarkFailed"

\* ---------------------------------------------------------------- C6
\* C6: once Cancel(id) has been called for a registered record, the terminal
\* store call of its handler activity is MarkFailed, whatever Handle returns.
C6_CancelAlwaysFailed ==
    \A a \in Acts : (act[a].pc = "post" /\ act[a].canceled) => act[a].mark = "MarkFailed"

\* ---------------------------------------------------------------- C7
\* C7: when only the root context was cancelled (no Cancel(id) for the record)
\* and Handle returns the cancellation error, MarkErrored is called.
C7_ShutdownIsRetryable ==
    \A a \in Acts :
        (/\ act[a].pc = "post"
         /\ rootCancelled
         /\ ~act[a].canceled
         /\ act[a].res = "canceled") => act[a].mark = "MarkErrored"

\* ---------------------------------------------------------------- C8
\* C8: once finished is closed, every handler activity that was spawned has
\* called wg.Done, and the semaphore holds all NumHandlers slots.
C8_DrainBeforeFinish ==
    pcMain = "finished" =>
        /\ \A a \in Acts : ~Running(a) /\ act[a].pc # "pre"
        /\ wg = 0
        /\ handlerSemaphore = NumHandlers

\* finished is closed after the shutdown timer ended the loop while handlers
\* were at work.
C8_Witness ==
    /\ pcMain = "finished"
    /\ reason = "MaxActiveTime elapsed"
    /\ ~rootCancelled
    /\ numMarks = NumHandlers

\* ---------------------------------------------------------------- C9
\* C9: with NumTotalJobs = N > 0 at most N handler activities are spawned; when
\* the loop ends for the reason "NumTotalJobs dequeued" exactly N dequeues
\* succeeded, and finished is closed only after those N activities have made
\* their terminal store call and called wg.Done.
C9_NumTotalJobsCap ==
    numTotalJobs > 0 =>
        /\ Cardinality({a \in Acts : Spawned(a)}) <= numTotalJobs
        /\ numDequeues <= numTotalJobs
        /\ reason = "NumTotalJobs dequeued" =>
              /\ numDequeues = numTotalJobs
              /\ Cardinality({a \in Acts : Spawned(a)}) = numTotalJobs
        /\ (pcMain = "finished" /\ reason = "NumTotalJobs dequeued") =>
              Cardinality({a \in Acts : Marked(a) /\ ~Running(a)}) = numTotalJobs

\* Start has returned because NumTotalJobs = MaxTotalJobs records were dequeued.
C9_Witness ==
    /\ numTotalJobs = MaxTotalJobs
    /\ pcMain = "finished"
    /\ reason = "NumTotalJobs dequeued"
    /\ ~rootCancelled
    /\ ~shutdownFired

\* ---------------------------------------------------------------- C10
\* C10: once the MaxActiveTime timer has fired the main loop calls
\* store.Dequeue no more; in particular no Dequeue call returns a record.
C10_NoDequeueAfterMaxActiveTime ==
    [][shutdownFired => numRecords' = numRecords]_vars

\* ---------------------------------------------------------------- C11
\* C11: once Start runs and the root context is cancelled by Stop, the main
\* loop exits, the handlers drain and finished is closed; finished stays
\* closed, so Stop's Wait and every later Stop or Wait returns.
C11_Termination ==
    /\ (rootCancelled /\ pcMain # "init") ~> (pcMain = "finished")
    /\ [][pcMain = "finished" => pcMain' = "finished"]_vars

\* Stop was called while a handler was at work, and Start has returned.
C11_Witness ==
    /\ pcMain = "finished"
    /\ rootCancelled
    /\ reason = ""
    /\ numMarks >= 1

\* ---------------------------------------------------------------- C12
\* C12: when dequeueAndHandle finds the id of the dequeued record already in
\* the registry, it starts no handler activity, leaves the gauge and the
\* wait-group alone, gives its slot back, reports the iteration as not
\* dequeued (so that it is not counted towards NumTotalJobs), and the main
\* loop goes on to the select at the end of the iteration.
C12_DuplicateDequeue ==
    [][(pcMain = "add" /\ pcMain' # "add" /\ IDSetHas(runningIDSet, record)) =>
         /\ act' = act
         /\ runningIDSet' = runningIDSet
         /\ numJobs' = numJobs
         /\ wg' = wg
         /\ numMarks' = numMarks
         /\ handlerSemaphore' = handlerSemaphore + 1
         /\ ~ok'
         /\ numDequeues' = numDequeues
         /\ pcMain' = "select"]_vars

\* Two records were dequeued, one handler activity exists and runs, and the
\* main loop is at the end of the iteration that refused the second record.
C12_Witness ==
    /\ pcMain = "select"
    /\ ~ok
    /\ numRecords = 2
    /\ numDequeues = 1
    /\ Cardinality({a \in Acts : act[a].pc # "none"}) = 1
    /\ \E a \in Acts : act[a].pc = "handle"
    /\ handlerSemaphore = NumHandlers - 1

\* ---------------------------------------------------------------- C13
\* C13: an error of the pre-dequeue hook, of store.Dequeue or of
\* store.Heartbeat ends neither loop: the main loop leaves dequeueAndHandle
\* for wg.Wait only when the root context is cancelled, an error that is not
\* the root context's error always leads to the select at the end of the
\* iteration, and the heartbeat loop exits only from its select, on the
\* cancelled root context.
C13_StoreErrorsDoNotAbort ==
    /\ [][(pcMain \in {"dequeue", "add", "spawn", "prehandle"} /\ pcMain' = "wgwait")
            => rootCancelled]_vars
    /\ [][(PreDequeueError("other") \/ DequeueError("other")) => pcMain' = "select"]_vars
    /\ [][(~rootCancelled /\ \E err \in {"canceled", "other"} :
                PreDequeueError(err) \/ DequeueError(err)) => pcMain' = "select"]_vars
    /\ [][(pcHb # "exit" /\ pcHb' = "exit") => (rootCancelled /\ pcHb = "wait" /\ ~hbErr)]_vars
    /\ [][(pcHb = "remove" /\ hbErr) => pcHb' \in {"remove", "wait"}]_vars

\* store.Heartbeat has just failed, a dequeue iteration has ended without a
\* record, and both loops are still running.
C13_Witness ==
    /\ pcHb = "remove"
    /\ hbErr
    /\ pcMain = "select"
    /\ ~ok
    /\ ~rootCancelled
    /\ ~shutdownFired

\* ---------------------------------------------------------------- C14
\* the handler activity a is registered and its deferred Remove has not run
Registered(a) == act[a].pc \in {"pre", "handle", "post", "release", "wgdone", "remove"}

EarlierPending(a) ==
    \E b \in Acts : b < a /\ Registered(b) /\ act[b].id = act[a].id

C15_UnknownIDReclamation ==
    /\ [][(pcHb = "wait" /\ pcHb' = "remove") =>
            \A knownIDs \in SUBSET RecordIDs, err \in BOOLEAN :
                HeartbeatTick(knownIDs, err) =>
                    /\ (IDSetSlice(runningIDSet) \ knownIDs) \subseteq hbTodo'
                    /\ hbTodo' \cap knownIDs = {}]_vars
    /\ [][\A id \in hbTodo : id \notin hbTodo' => ~IDSetHas(runningIDSet', id)]_vars
    /\ [][\A id \in RecordIDs :
            (IDSetHas(runningIDSet, id) /\ ~IDSetHas(runningIDSet', id) /\ hbTodo' # hbTodo)
                => id \in hbTodo]_vars
    /\ [](pcHb # "remove" => hbTodo = {})
    /\ [](pcHb = "remove" => hbTodo # {})

\* Two running ids were unknown to the store: one has been removed, the
\* other is the next to go.
C15_Witness ==
    /\ pcHb = "remove"
    /\ Cardinality(hbTodo) = 1
    /\ ~hbErr
    /\ \E a, b \in Acts :
          /\ act[a].pc = "handle" /\ ~IDSetHas(runningIDSet, act[a].id)
          /\ act[b].pc = "handle" /\ act[b].id \in hbTodo

\* ---------------------------------------------------------------- C16
\* C16: a tick in which store.Heartbeat returned an error leaves the
\* registry as it is.
C16_HeartbeatErrorKeepsRegistry ==
    [][(pcHb = "remove" /\ hbErr /\ hbTodo' # hbTodo) => runningIDSet' = runningIDSet]_vars

\* ---------------------------------------------------------------- C17
\* C17: no id is passed to store.Heartbeat once the handler activity that
\* registered it has made its terminal Mark call: the snapshot of a tick
\* holds no id whose entry belongs to an activity that has marked.
C17_NoHeartbeatAfterMark ==
    [][(pcHb = "wait" /\ pcHb' = "remove") =>
         \A id \in IDSetSlice(runningIDSet) : ~Marked(runningIDSet[id])]_vars

\* ---------------------------------------------------------------- C18
\* C18: a step of the heartbeat loop, a Remove included, changes no handler
\* activity (it cancels none), no slot and no Mark count; a handler whose id
\* is no longer registered still finishes; every activity makes its terminal
\* Mark call exactly once, on leaving Handle, and puts its slot back.
C18_HeartbeatLossKeepsHandler ==
    /\ [][hbTodo' # hbTodo =>
            /\ act' = act
            /\ handlerSemaphore' = handlerSemaphore
            /\ numMarks' = numMarks
            /\ rootCancelled' = rootCancelled]_vars
    /\ \A a \in Acts :
          (act[a].pc = "handle" /\ ~IDSetHas(runningIDSet, act[a].id)) ~> (act[a].pc = "done")
    /\ [][\A a \in Acts :
            /\ (act[a].pc = "handle" /\ act'[a].pc # "handle") =>
                   (act'[a].mark # "none" /\ numMarks' = numMarks + 1)
            /\ (act[a].pc # "handle" /\ act'[a].pc # act[a].pc /\ act[a].pc # "pre") =>
                   numMarks' = numMarks
            /\ (act[a].pc = "release" /\ act'[a].pc # "release") =>
                   handlerSemaphore' = handlerSemaphore + 1]_vars

\* A handler whose id the heartbeat loop removed was not cancelled, returned
\* from Handle without error and has made its MarkComplete call.
C18_Witness ==
    \E a \in Acts :
        /\ act[a].pc = "post"
        /\ ~IDSetHas(runningIDSet, act[a].id)
        /\ ~act[a].canceled
        /\ act[a].mark = "MarkComplete"
        /\ ~rootCancelled

\* ---------------------------------------------------------------- C19
\* C19: once finished is closed, the registry of running ids is empty.
C19_RegistryEmptyAtEnd ==
    pcMain = "finished" => IDSetSlice(runningIDSet) = {}

\* ---------------------------------------------------------------- C20
\* the goroutine of handler activity a exists and has not yet run the
\* numJobs.Dec of its cleanup
InFlight(a) == act[a].pc \in {"handle", "post"}

\* C20: the gauge numJobs stays within 0..NumHandlers, equals the number
\* of handler activities that have not yet run their cleanup, and is 0 once
\* finished is closed.
C20_InFlightGauge ==
    /\ numJobs \in 0..NumHandlers
    /\ numJobs = Cardinality({a \in Acts : InFlight(a)})
    /\ pcMain = "finished" => numJobs = 0

\* C20 (amended): the gauge numJobs goes up by one, once, for every
\* registered record, right after its registration, and down by one in the
\* cleanup of that record's handler goroutine, and changes in no other
\* step; it stays within 0..NumHandlers and is 0 once finished is closed;
\* it equals the number of handler activities that have not yet run their
\* cleanup, plus one while the main loop is between numJobs.Inc and the
\* start of the goroutine, that is while the PreHandle hook runs.
C20_GaugeCountsIncToDec ==
    /\ [](numJobs \in 0..NumHandlers)
    /\ [](numJobs = Cardinality({a \in Acts : InFlight(a)})
                        + (IF pcMain = "prehandle" THEN 1 ELSE 0))
    /\ [](pcMain = "finished" => numJobs = 0)
    /\ [][(pcMain = "spawn" /\ pcMain' # "spawn") => numJobs' = numJobs + 1]_vars
    /\ [][numJobs' # numJobs =>
            \/ /\ pcMain = "spawn" /\ pcMain' = "prehandle"
               /\ numJobs' = numJobs + 1
               /\ act[PreAct].pc = "pre"
            \/ \E a \in Acts : /\ act[a].pc = "post" /\ act'[a].pc = "release"
                               /\ numJobs' = numJobs - 1]_vars

\* The gauge is at NumHandlers: it counts one activity that has made its
\* Mark call and is about to run its cleanup, and one record whose PreHandle
\* hook is running and whose goroutine does not exist yet.
C20_Witness ==
    /\ numJobs = NumHandlers
    /\ pcMain = "prehandle"
    /\ \E a \in Acts : act[a].pc = "post"
    /\ \E a \in Acts : act[a].pc = "pre"

\* ---------------------------------------------------------------- C21
\* the registry entry of id is the one that was added for activity a
OwnEntry(a) == runningIDSet[act[a].id] = a

\* C21: for every handler activity the terminal Mark call is made before
\* the PostHandle hook runs, and until PostHandle has run the entry that was
\* added for the activity is taken out of the registry by nothing but the
\* heartbeat loop: PostHandle finds the id registered unless the heartbeat
\* loop removed it.
C21_MarkPostHandleRemove ==
    /\ [][\A a \in Acts :
            (act[a].pc = "post" /\ act'[a].pc # "post") => act[a].mark # "none"]_vars
    /\ [][\A a \in Acts :
            (/\ act[a].pc \in {"pre", "handle", "post"}
             /\ OwnEntry(a)
             /\ runningIDSet'[act[a].id] # a)
                => (pcHb = "remove" /\ act[a].id \in hbTodo /\ act[a].id \notin hbTodo')]_vars

\* ---------------------------------------------------------------- C22
\* C22: when a handler activity puts its semaphore slot back, the entry
\* that was added for it has already been removed from the registry.
C22_RemoveBeforeRelease ==
    [][\A a \in Acts :
         (act[a].pc = "release" /\ act'[a].pc = "wgdone") => ~OwnEntry(a)]_vars

\* ---------------------------------------------------------------- C23
\* C23: the number of available handler slots equals NumHandlers minus the
\* number of ids in the registry.
C23_SlotsMatchRegistry ==
    handlerSemaphore = NumHandlers - Cardinality(IDSetSlice(runningIDSet))

\* C23 (amended): the number of available handler slots equals NumHandlers
\* minus the slots that are taken: the one the main loop holds from its
\* receive on the semaphore until it gives it back or has handed it to a
\* handler goroutine, and one for every handler goroutine that has not yet
\* sent on the semaphore.
C23_SlotsMatchHolders ==
    handlerSemaphore =
        NumHandlers - (IF MainHoldsSlot THEN 1 ELSE 0) - Cardinality({a \in Acts : HoldsSlot(a)})

\* No slot is available although the registry is empty: the heartbeat loop
\* has removed the ids of the handlers that hold the slots.
C23_Witness ==
    /\ handlerSemaphore = 0
    /\ IDSetSlice(runningIDSet) = {}
    /\ Cardinality({a \in Acts : act[a].pc = "handle"}) = NumHandlers

\* ---------------------------------------------------------------- C24
\* C24: dequeueAndHandle takes one slot when it goes on to dequeue and none
\* when it returns on the cancelled root context; every return without a
\* handler activity (hook error, hook declines, Dequeue error, nothing
\* dequeued, duplicate id) gives that slot back; a hand-off keeps it, and
\* the slot count goes up in no other way than by such a return or by the
\* one semaphore send of a handler activity's cleanup.
C24_NoSlotLeak ==
    /\ [][(pcMain = "acquire" /\ pcMain' # "acquire") =>
            \/ pcMain' = "dequeue" /\ handlerSemaphore' = handlerSemaphore - 1
            \/ pcMain' # "dequeue" /\ rootCancelled /\ handlerSemaphore' = handlerSemaphore]_vars
    /\ [][(pcMain \in {"dequeue", "add"} /\ pcMain' \in {"select", "wgwait"}) =>
            (handlerSemaphore' = handlerSemaphore + 1 /\ act' = act /\ ~ok')]_vars
    /\ [][(pcMain = "spawn" /\ pcMain' # "spawn") =>
            (handlerSemaphore' = handlerSemaphore /\ pcMain' = "prehandle")]_vars
    /\ [][(pcMain = "prehandle" /\ pcMain' # "prehandle") =>
            (handlerSemaphore' = handlerSemaphore /\ ok' /\ act'[PreAct].pc = "handle")]_vars
    /\ [][handlerSemaphore' # handlerSemaphore =>
            \/ pcMain = "acquire" /\ pcMain' = "dequeue"
            \/ pcMain \in {"dequeue", "add"} /\ pcMain' \in {"select", "wgwait"}
            \/ \E a \in Acts : /\ act[a].pc = "release" /\ act'[a].pc = "wgdone"
                               /\ handlerSemaphore' = handlerSemaphore + 1]_vars
    /\ [][\A a \in Acts :
            /\ (act[a].pc = "release" /\ act'[a].pc # "release") =>
                   (act'[a].pc = "wgdone" /\ handlerSemaphore' = handlerSemaphore + 1)
            /\ (act'[a].pc = "release" /\ act[a].pc # "release") => act[a].pc = "post"]_vars

\* A handler activity has put its slot back, a later call of
\* dequeueAndHandle has returned without a record, and every slot is
\* available again.
C24_Witness ==
    /\ pcMain = "select"
    /\ ~ok
    /\ handlerSemaphore = NumHandlers
    /\ \E a \in Acts : act[a].pc = "wgdone"

\* ---------------------------------------------------------------- C25
\* C25: the heartbeat goroutine returns only when the root context is
\* cancelled: while it is not, the goroutine stays in its loop, also when
\* the main loop has ended on NumTotalJobs or MaxActiveTime and finished is
\* closed; once the root context is cancelled, it exits.
C25_HeartbeatExitsOnRootCancel ==
    /\ [](pcHb = "exit" => rootCancelled)
    /\ []((pcMain \in {"wgwait", "finished"} /\ ~rootCancelled) => pcHb \in {"wait", "remove"})
    /\ [][(pcHb \in {"wait", "remove"} /\ ~rootCancelled) => pcHb' \in {"wait", "remove"}]_vars
    /\ (rootCancelled /\ pcHb \in {"wait", "remove"}) ~> (pcHb = "exit")

\* Start has returned after NumTotalJobs dequeues, nobody has cancelled the
\* root context, and the heartbeat loop is in the middle of a tick.
C25_Witness ==
    /\ pcMain = "finished"
    /\ reason = "NumTotalJobs dequeued"
    /\ ~rootCancelled
    /\ pcHb = "remove"

\* ---------------------------------------------------------------- C26
\* C26: once the root context is cancelled the main loop starts no new
\* iteration: from the select at the end of an iteration it does not go
\* back to dequeueAndHandle.
C26_NoIterationAfterStop ==
    [][(rootCancelled /\ pcMain = "select") => pcMain' # "acquire"]_vars

\* ---------------------------------------------------------------- C27
\* C27: the Remove of a handler activity's cleanup takes out of the registry
\* only the entry that was added for that activity: when the id is
\* registered for a later activity, the registry is left as it is.
C27_CleanupRemovesOwnEntryOnly ==
    [][\A a \in Acts :
         (/\ act[a].pc = "remove" /\ act'[a].pc = "done"
          /\ IDSetHas(runningIDSet, act[a].id)
          /\ ~OwnEntry(a))
            => runningIDSet' = runningIDSet]_vars

====
